---- MODULE Spec2Model ----
(***************************************************************************)
(* Job orchestration core of backend/main.py: the job registry JOBS, the   *)
(* two background workers (process_listing_job, process_single_image_job), *)
(* the thread pool that runs the collaborator calls, the status endpoint   *)
(* and the on-demand generation endpoint with its result cache.            *)
(*                                                                         *)
(* Granularity: the workers are asyncio coroutines on one event loop, so   *)
(* the code between two awaits runs without interleaving.  Every action    *)
(* below is one such segment (from the resumption of a coroutine to its    *)
(* next await or its return).  A status poll can only observe the states   *)
(* between two actions.                                                    *)
(*                                                                         *)
(* Python values: None and an absent dictionary key are the empty          *)
(* sequence << >>, a present value v is << v >>.  Prompt strings keep      *)
(* their emptiness ("" is falsy, as are None and an absent key).           *)
(***************************************************************************)
EXTENDS Integers, Sequences, FiniteSets, TLC

\* ---------------------------------------------------------------- bounds
MaxJobs == 2
MaxPhotos == 3
MaxRequests == 2

\* ---------------------------------------------------------- program data
max_workers == 3

None == << >>
Some(v) == << v >>

Min(a, b) == IF a < b THEN a ELSE b
Max(a, b) == IF a > b THEN a ELSE b

\* Image URLs are numbered; the scraper keeps a photo list free of duplicates.
PhotoList(m) == [i \in 1..m |-> i]
ImageUrls == 1..MaxPhotos
RequestUrls == {1, 2}

\* The fields of an audit payload that decide what main.py does with it.
AuditData(barrier, p, m, cm, cp, bm, bp) ==
    [barrier_detected |-> barrier, image_gen_prompt |-> p, mask_prompt |-> m,
     clear_mask |-> cm, clear_prompt |-> cp, build_mask |-> bm, build_prompt |-> bp]

\* barrier_detected texts (lower case) that report a room without barriers.
NoBarrierTexts == {"no accessibility barriers detected", "room is already accessible"}

\* Mutant: the payload is passed on as the image model sent it.
ValidateAuditResponse_Unchanged(audit_data) == audit_data

\* _validate_audit_response: a payload that reports no barrier loses every
\* renovation field.
ValidateAuditResponse(audit_data) ==
    IF audit_data.barrier_detected \in NoBarrierTexts
    THEN [audit_data EXCEPT !.image_gen_prompt = "", !.mask_prompt = "",
                            !.clear_mask = "", !.clear_prompt = "",
                            !.build_mask = "", !.build_prompt = ""]
    ELSE audit_data

\* No barrier, as the image model words it (its prompts are left as sent).
NoBarrierAudit == AuditData("no accessibility barriers detected", "", "", "", "", "", "")
AccessibleAudit == AuditData("room is already accessible", "p", "m", "", "", "bm", "bp")
\* A prompt without a mask (both are required fields, their content is free).
NoMaskAudit == AuditData("stairs", "p", "", "", "", "bm", "bp")
\* Non-structural renovation: the removal fields default to "".
SinglePassAudit == AuditData("stairs", "p", "m", "", "", "bm", "bp")
\* A stray removal mask without the removal prompt.
StrayAudit == AuditData("stairs", "p", "m", "cm", "", "bm", "bp")
\* Structural renovation: all four structural fields are non-empty.
TwoPassAudit == AuditData("stairs", "p", "m", "cm", "cp", "bm", "bp")
TwoPassAuditB == AuditData("stairs", "p", "m", "cm", "cp", "bm", "bp2")

\* The outcome of a call: it raised, or it returned value.
Raised == [raised |-> TRUE, value |-> None]
Returned(v) == [raised |-> FALSE, value |-> v]

\* What the image model sends back for an audit.
GeminiAudits ==
    {NoBarrierAudit, AccessibleAudit, NoMaskAudit, SinglePassAudit, TwoPassAudit}

\* An answer without the required field barrier_detected.
MalformedAudit == AuditData("<missing>", "p", "m", "", "", "bm", "bp")
AuditAnswers == GeminiAudits \cup {MalformedAudit}

\* audit_room: the validated payload, or the ValueError of a missing
\* required field.
audit_room(answer) ==
    IF answer.barrier_detected = "<missing>" THEN Raised
    ELSE Returned(ValidateAuditResponse(answer))

\* audit_data of an on-demand request is supplied by the caller.
RequestAudits ==
    {NoMaskAudit, SinglePassAudit, StrayAudit, TwoPassAudit, TwoPassAuditB}

\* Mutant: the check for an empty photo list is missing.
NoImages_Never(image_urls) == FALSE

\* if not image_urls
NoImages(image_urls) == image_urls = << >>

\* Mutant: the cache is never consulted.
CacheHit_Never(cache, cache_key) == FALSE

\* if cache_key in image_generation_cache
CacheHit(cache, cache_key) == cache_key \in DOMAIN cache

\* What the image model answers: an image, no image part, or an API error.
Images == {"imgA", "imgB"}
GeminiAnswers == Images \cup {"no_parts", "api_error"}

\* Listing(error, photos): the dictionary scrape_realtor_ca_listing returns.
Listing(err, photos) == [error |-> err, property_photos |-> photos]
ScraperOutcomes ==
    {Returned(Listing(None, PhotoList(m))) : m \in 0..MaxPhotos}
        \cup {Returned(Listing(Some("scrape error"), << >>)), Raised}

\* max_images is any integer of the request; 5 is the default.
MaxImagesValues == {-1, 0, 1, 5}

\* ------------------------------------------------------- pure functions
\* images_to_analyze = image_urls[:max_images] (Python slice semantics).
SlicePrefix(s, k) ==
    IF k >= 0 THEN SubSeq(s, 1, Min(k, Len(s)))
    ELSE SubSeq(s, 1, Max(0, Len(s) + k))

\* Mutant: the quotient the wrong way round.
Progress_Swapped(idx, total) == (total * 100) \div idx

\* int((idx / total) * 100).  The float quotient agrees with the integer
\* floor for every total below 50 (the first difference is 29/50 -> 57).
Progress(idx, total) == (idx * 100) \div total

\* Mutant: one structural field is enough (`or` for `and`).
IsTwoPass_AnyField(a) ==
    a.clear_mask # "" \/ a.clear_prompt # "" \/ a.build_mask # "" \/ a.build_prompt # ""

\* is_two_pass = bool(clear_mask and clear_prompt and build_mask and build_prompt)
IsTwoPass(a) ==
    a.clear_mask # "" /\ a.clear_prompt # "" /\ a.build_mask # "" /\ a.build_prompt # ""

\* Mutant: only the prompt is tested.
HasPrompts_PromptOnly(a) == a.image_gen_prompt # ""

\* if not image_gen_prompt or not mask_prompt: no generation
HasPrompts(a) == a.image_gen_prompt # "" /\ a.mask_prompt # ""

\* The arguments of the call generate_renovation(...) as main.py builds them.
GenArgs(url, a, wc) ==
    LET tp == IsTwoPass(a) IN
    [image_url |-> url, prompt |-> a.image_gen_prompt, mask_prompt |-> a.mask_prompt,
     is_two_pass |-> tp,
     clear_mask |-> IF tp THEN Some(a.clear_mask) ELSE None,
     clear_prompt |-> IF tp THEN Some(a.clear_prompt) ELSE None,
     build_mask |-> IF tp THEN Some(a.build_mask) ELSE None,
     build_prompt |-> IF tp THEN Some(a.build_prompt) ELSE None,
     wheelchair_accessible |-> wc]

\* Mutant: the accessibility flag is left out of the key.
CacheKey_NoFlag(url, a, wc) ==
    LET tp == IsTwoPass(a) IN
    << IF tp THEN a.build_mask ELSE "", IF tp THEN a.build_prompt ELSE "",
       IF tp THEN a.clear_mask ELSE "", IF tp THEN a.clear_prompt ELSE "",
       a.image_gen_prompt, url, tp, a.mask_prompt >>

\* Mutant: the structural fields go into the key as the request sent them.
CacheKey_Raw(url, a, wc) ==
    << a.build_mask, a.build_prompt, a.clear_mask, a.clear_prompt,
       a.image_gen_prompt, url, IsTwoPass(a), a.mask_prompt, wc >>

\* sha256(json.dumps(cache_key_data, sort_keys=True)): the values in the order
\* of the sorted keys build_mask, build_prompt, clear_mask, clear_prompt,
\* image_gen_prompt, image_url, is_two_pass, mask_prompt, wheelchair_accessible.
\* json.dumps is injective on these values and the digest is taken as
\* collision-free, so the serialized tuple stands for the key.
CacheKey(url, a, wc) ==
    LET tp == IsTwoPass(a) IN
    << IF tp THEN a.build_mask ELSE "", IF tp THEN a.build_prompt ELSE "",
       IF tp THEN a.clear_mask ELSE "", IF tp THEN a.clear_prompt ELSE "",
       a.image_gen_prompt, url, tp, a.mask_prompt, wc >>

\* Mutant: a failure of the image API escapes instead of being caught (no
\* `except Exception: return None`).
generate_renovation_Raises(args, answer) ==
    IF answer \in Images THEN Returned(Some(answer)) ELSE Raised

\* services.generate_renovation: ValueError without a prompt or a mask, else
\* the image bytes, or None when no image part came back or anything failed.
generate_renovation(args, answer) ==
    IF args.prompt = "" \/ args.mask_prompt = "" THEN Raised
    ELSE IF answer \in Images THEN Returned(Some(answer))
    ELSE Returned(None)

\* f"data:image/jpeg;base64,{base64.b64encode(bytes)}"
DataUri(bytes) == << "data:image/jpeg;base64", bytes >>

\* ---------------------------------------------------------------- state
VARIABLES
    JOBS,                    \* job_id -> job dictionary (ids are 1..Len(JOBS))
    tasks,                   \* job_id -> the locals of the job's coroutine
    executor_queue,          \* calls submitted to the pool, not yet picked up
    executor_running,        \* jobs whose call runs on a pool thread
    image_generation_cache,  \* cache key -> [renovated_image, original_url]
    requests,                \* the /generate-renovation requests, in arrival order
    blocking_call,           \* the request whose generate_renovation call runs
                             \* inline on the event loop, or 0
    calls,                   \* history: collaborator calls made per job
    generator_log            \* history: generate_renovation arguments -> calls

vars == << JOBS, tasks, executor_queue, executor_running, image_generation_cache,
           requests, blocking_call, calls, generator_log >>

jobVars == << JOBS, tasks, executor_queue, executor_running, calls >>
requestVars == << image_generation_cache, requests, blocking_call >>

JobIds == 1..Len(JOBS)

\* Mutant: the item count of a new job is not taken from the endpoint.
NewJob_Untotalled(total) ==
    [status |-> "processing", property_info |-> None, total_images |-> 0,
     audit_progress |-> 0, generation_progress |-> 0,
     current_status |-> << "Initializing..." >>, results |-> << >>, error |-> None]

\* The dictionary both job-creation endpoints insert into JOBS.
NewJob(total) ==
    [status |-> "processing", property_info |-> None, total_images |-> total,
     audit_progress |-> 0, generation_progress |-> 0,
     current_status |-> << "Initializing..." >>, results |-> << >>, error |-> None]

\* The locals of a coroutine at the moment asyncio.create_task schedules it.
NewTask(kind, url, max_images, wc) ==
    [kind |-> kind, pc |-> "created", url |-> url, max_images |-> max_images,
     wheelchair_accessible |-> wc, listing_data |-> None,
     images_to_analyze |-> << >>,
     audit_results |-> << >>, idx |-> 0]

NoCalls == [scraper |-> 0, auditor |-> 0, generator |-> 0]

\* One more call with these arguments in the log.
Logged(log, args) ==
    IF args \in DOMAIN log THEN [log EXCEPT ![args] = @ + 1] ELSE log @@ (args :> 1)

\* Mutant: the entry is numbered from the list index (enumerate without
\* start = 1).
AuditedResult_ZeroBased(idx, url, audit) ==
    [image_number |-> idx - 1, original_url |-> url, audit |-> Some(audit),
     error |-> None, renovated_image |-> None]

\* An entry of audit_results.
AuditedResult(idx, url, audit) ==
    [image_number |-> idx, original_url |-> url, audit |-> Some(audit),
     error |-> None, renovated_image |-> None]
FailedResult(idx, url) ==
    [image_number |-> idx, original_url |-> url, audit |-> None,
     error |-> Some("audit error"), renovated_image |-> None]

\* Mutant: the check of the two prompts is missing.
Eligible_AnyAudit(result) == result.audit # None

\* The generation loop generates for an entry with a truthy audit that has
\* both prompts; every other entry is passed over with `continue`.
Eligible(result) == result.audit # None /\ HasPrompts(result.audit[1])

\* Mutant: the loop ends at the first entry it would pass over (`break` for
\* `continue`).
FirstEligible_Break(results, from) ==
    IF from > Len(results) THEN 0
    ELSE IF Eligible(results[from]) THEN from
    ELSE 0

\* Mutant: an entry whose generation gave no image is tried again.
FirstEligible_Retry(results, from) ==
    IF from > 1 /\ Eligible(results[from - 1])
                /\ results[from - 1].renovated_image = None
    THEN from - 1
    ELSE LET later == {k \in from..Len(results) : Eligible(results[k])} IN
         IF later = {} THEN 0
         ELSE CHOOSE k \in later : \A m \in later : k <= m

RECURSIVE FirstEligible(_, _)
FirstEligible(results, from) ==
    IF from > Len(results) THEN 0
    ELSE IF Eligible(results[from]) THEN from
    ELSE FirstEligible(results, from + 1)

Init ==
    /\ JOBS = << >>
    /\ tasks = << >>
    /\ executor_queue = << >>
    /\ executor_running = {}
    /\ image_generation_cache = << >>
    /\ requests = << >>
    /\ blocking_call = 0
    /\ calls = << >>
    /\ generator_log = << >>

\* The event loop runs handlers and coroutines only while no handler blocks it.
LoopFree == blocking_call = 0

\* ------------------------------------------------------ job creation
\* POST /analyze
analyze(limit, image_url, wc) ==
    /\ LoopFree
    /\ Len(JOBS) < limit
    /\ JOBS' = Append(JOBS, NewJob(1))
    /\ tasks' = Append(tasks, NewTask("single", image_url, 0, wc))
    /\ calls' = Append(calls, NoCalls)
    /\ UNCHANGED << executor_queue, executor_running, generator_log >>
    /\ UNCHANGED requestVars

\* POST /analyze-from-listing
analyze_from_listing(limit, max_images, wc) ==
    /\ LoopFree
    /\ Len(JOBS) < limit
    /\ JOBS' = Append(JOBS, NewJob(0))
    /\ tasks' = Append(tasks, NewTask("listing", 0, max_images, wc))
    /\ calls' = Append(calls, NoCalls)
    /\ UNCHANGED << executor_queue, executor_running, generator_log >>
    /\ UNCHANGED requestVars

\* ------------------------------------------------------ worker pool
\* A pool thread takes the oldest submitted call.
WorkerStart ==
    /\ executor_queue # << >>
    /\ Cardinality(executor_running) < max_workers
    /\ executor_running' = executor_running \cup {Head(executor_queue)}
    /\ executor_queue' = Tail(executor_queue)
    /\ UNCHANGED << JOBS, tasks, calls, generator_log >>
    /\ UNCHANGED requestVars

\* The call of job j has returned and the event loop resumes the coroutine.
Resumes(j, pc) ==
    /\ LoopFree
    /\ j \in JobIds
    /\ tasks[j].pc = pc
    /\ j \in executor_running

\* ------------------------------------------------------ process_listing_job
\* Mutant: the completion leaves audit_progress as the audit loop left it.
ListingCompleted_KeepsAudit(job) ==
    [job EXCEPT !.status = "completed", !.current_status = << "Completed" >>,
                !.generation_progress = 100]

\* Mutant: the completion publishes an empty list.
ListingCompleted_ClearsResults(job) ==
    [job EXCEPT !.status = "completed", !.current_status = << "Completed" >>,
                !.audit_progress = 100, !.generation_progress = 100,
                !.results = << >>]

\* Mutant: the completion forgets the status.
ListingCompleted_StaysProcessing(job) ==
    [job EXCEPT !.current_status = << "Completed" >>,
                !.audit_progress = 100, !.generation_progress = 100]

\* Phase 4: the completion assignments of process_listing_job.
ListingCompleted(job) ==
    [job EXCEPT !.status = "completed", !.current_status = << "Completed" >>,
                !.audit_progress = 100, !.generation_progress = 100]

\* Mutant: the failure is recorded without its message.
JobFailed_NoError(job) == [job EXCEPT !.status = "failed"]

\* The outer `except Exception` of both workers.
JobFailed(job) ==
    [job EXCEPT !.status = "failed", !.error = Some("Job failed")]

\* The generation loop from entry `from` up to its next await: it passes over
\* the entries that are not eligible and either submits generate_renovation for
\* the first eligible one or falls through to the completion.
ContinueGeneration(j, job, task, from) ==
    LET e == FirstEligible(task.audit_results, from) IN
    IF e = 0
    THEN /\ JOBS' = [JOBS EXCEPT ![j] = ListingCompleted(job)]
         /\ tasks' = [tasks EXCEPT ![j] = [task EXCEPT !.pc = "done"]]
         /\ executor_queue' = executor_queue
         /\ calls' = calls
         /\ generator_log' = generator_log
    ELSE LET result == task.audit_results[e] IN
         /\ JOBS' = [JOBS EXCEPT ![j] =
                [job EXCEPT !.current_status =
                    << "Generating image", e, job.total_images >>]]
         /\ tasks' = [tasks EXCEPT ![j] = [task EXCEPT !.pc = "generate", !.idx = e]]
         /\ executor_queue' = Append(executor_queue, j)
         /\ calls' = [calls EXCEPT ![j].generator = @ + 1]
         /\ generator_log' = Logged(generator_log,
                GenArgs(result.original_url, result.audit[1],
                        task.wheelchair_accessible))

\* The coroutine starts: "Scraping listing..." and the scraper call is submitted.
StartListingJob(j) ==
    /\ LoopFree
    /\ j \in JobIds
    /\ tasks[j].kind = "listing"
    /\ tasks[j].pc = "created"
    /\ JOBS' = [JOBS EXCEPT ![j].current_status = << "Scraping listing..." >>]
    /\ tasks' = [tasks EXCEPT ![j].pc = "scrape"]
    /\ executor_queue' = Append(executor_queue, j)
    /\ calls' = [calls EXCEPT ![j].scraper = @ + 1]
    /\ UNCHANGED << executor_running, generator_log >>
    /\ UNCHANGED requestVars

\* Phase 1 after the scraper call, up to the first audit call (or the end).
ScraperReturns(j, out) ==
    /\ Resumes(j, "scrape")
    /\ executor_running' = executor_running \ {j}
    /\ UNCHANGED requestVars
    /\ IF out.raised
       THEN /\ JOBS' = [JOBS EXCEPT ![j] = JobFailed(@)]
            /\ tasks' = [tasks EXCEPT ![j].pc = "done"]
            /\ UNCHANGED << executor_queue, calls, generator_log >>
       ELSE IF out.value.error # None
       THEN /\ JOBS' = [JOBS EXCEPT ![j].status = "failed",
                                    ![j].error = Some("Failed to scrape listing")]
            /\ tasks' = [tasks EXCEPT ![j].pc = "done", ![j].listing_data = Some(out.value)]
            /\ UNCHANGED << executor_queue, calls, generator_log >>
       ELSE IF NoImages(out.value.property_photos)
       THEN /\ JOBS' = [JOBS EXCEPT ![j].property_info = Some("listing"),
                                    ![j].status = "failed",
                                    ![j].error = Some("No images found in listing")]
            /\ tasks' = [tasks EXCEPT ![j].pc = "done", ![j].listing_data = Some(out.value)]
            /\ UNCHANGED << executor_queue, calls, generator_log >>
       ELSE LET images == SlicePrefix(out.value.property_photos, tasks[j].max_images)
                total == Len(images)
                job == [JOBS[j] EXCEPT !.property_info = Some("listing"),
                                       !.total_images = total, !.results = << >>]
                task == [tasks[j] EXCEPT !.listing_data = Some(out.value),
                                         !.images_to_analyze = images]
            IN  IF total = 0
                THEN ContinueGeneration(j, job, task, 1)
                ELSE /\ JOBS' = [JOBS EXCEPT ![j] =
                            [job EXCEPT !.current_status = << "Auditing image", 1, total >>]]
                     /\ tasks' = [tasks EXCEPT ![j] = [task EXCEPT !.pc = "audit", !.idx = 1]]
                     /\ executor_queue' = Append(executor_queue, j)
                     /\ calls' = [calls EXCEPT ![j].auditor = @ + 1]
                     /\ generator_log' = generator_log

\* Mutant: a failed audit fails the job.
AuditError_Escalates(job) ==
    [job EXCEPT !.status = "failed", !.error = Some("audit error")]

\* Mutant: the except branch of the audit loop marks the job as failed and
\* the loop goes on.
AuditError_MarksFailed(job) == [job EXCEPT !.status = "failed"]

\* Mutant: the audit loop records the failure as the outer handler does, and
\* goes on to the next image.
AuditError_Aborts(job) == JobFailed(job)

\* The `except Exception` inside the audit loop: the error goes to the local
\* audit_results, the job dictionary is left as it is.
AuditError(job) == job

\* Phase 2: one audit call has ended; up to the next await.
AuditorReturns(j, answer) ==
    /\ Resumes(j, "audit")
    /\ tasks[j].kind = "listing"
    /\ executor_running' = executor_running \ {j}
    /\ UNCHANGED requestVars
    /\ LET out == audit_room(answer)
           idx == tasks[j].idx
           total == JOBS[j].total_images
           image_url == tasks[j].images_to_analyze[idx]
           audit_results ==
               Append(tasks[j].audit_results,
                      IF out.raised THEN FailedResult(idx, image_url)
                      ELSE AuditedResult(idx, image_url, out.value))
           job == IF out.raised THEN AuditError(JOBS[j])
                  ELSE [JOBS[j] EXCEPT !.audit_progress = Progress(idx, total),
                                       !.results = audit_results]
           task == [tasks[j] EXCEPT !.audit_results = audit_results]
       IN  IF idx < total
           THEN /\ JOBS' = [JOBS EXCEPT ![j] =
                       [job EXCEPT !.current_status = << "Auditing image", idx + 1, total >>]]
                /\ tasks' = [tasks EXCEPT ![j] = [task EXCEPT !.idx = idx + 1]]
                /\ executor_queue' = Append(executor_queue, j)
                /\ calls' = [calls EXCEPT ![j].auditor = @ + 1]
                /\ generator_log' = generator_log
           ELSE ContinueGeneration(j, job, task, 1)

\* Mutant: the image goes to the entry a stale binding points at.
WithImage_FirstEntry(results, idx, bytes) ==
    [results EXCEPT ![1].renovated_image = Some(DataUri(bytes))]

\* result["renovated_image"] = renovated_image_base64, for the entry of the
\* current iteration.
WithImage(results, idx, bytes) ==
    [results EXCEPT ![idx].renovated_image = Some(DataUri(bytes))]

\* Phase 3: one generate_renovation call has ended; up to the next await.
GeneratorReturns(j, answer) ==
    /\ Resumes(j, "generate")
    /\ tasks[j].kind = "listing"
    /\ executor_running' = executor_running \ {j}
    /\ UNCHANGED requestVars
    /\ LET idx == tasks[j].idx
           total == JOBS[j].total_images
           result == tasks[j].audit_results[idx]
           out == generate_renovation(
                      GenArgs(result.original_url, result.audit[1],
                              tasks[j].wheelchair_accessible), answer)
           audit_results ==
               IF ~out.raised /\ out.value # None
               THEN WithImage(tasks[j].audit_results, idx, out.value[1])
               ELSE tasks[j].audit_results
           job == IF out.raised THEN JOBS[j]
                  ELSE [JOBS[j] EXCEPT !.generation_progress = Progress(idx, total),
                                       !.results = audit_results]
           task == [tasks[j] EXCEPT !.audit_results = audit_results]
       IN  ContinueGeneration(j, job, task, idx + 1)

\* ------------------------------------------------- process_single_image_job
\* The completion assignments of process_single_image_job.
SingleCompleted(job) ==
    [job EXCEPT !.status = "completed", !.current_status = << "Completed" >>,
                !.generation_progress = 100,
                !.property_info = Some("Single Image Analysis")]

\* Mutant: the reset goes to every record (JOBS indexed by a stale job_id).
StartSingleJob_ResetsAll(j) ==
    /\ LoopFree
    /\ j \in JobIds
    /\ tasks[j].kind = "single"
    /\ tasks[j].pc = "created"
    /\ JOBS' = [k \in DOMAIN JOBS |->
                   [JOBS[k] EXCEPT !.total_images = 1, !.results = << >>,
                                   !.current_status = << "Auditing image", 1, 1 >>]]
    /\ tasks' = [tasks EXCEPT ![j].pc = "audit", ![j].idx = 1]
    /\ executor_queue' = Append(executor_queue, j)
    /\ calls' = [calls EXCEPT ![j].auditor = @ + 1]
    /\ UNCHANGED << executor_running, generator_log >>
    /\ UNCHANGED requestVars

\* The coroutine starts: it resets the record and submits the audit call.
StartSingleJob(j) ==
    /\ LoopFree
    /\ j \in JobIds
    /\ tasks[j].kind = "single"
    /\ tasks[j].pc = "created"
    /\ JOBS' = [JOBS EXCEPT ![j].total_images = 1, ![j].results = << >>,
                            ![j].current_status = << "Auditing image", 1, 1 >>]
    /\ tasks' = [tasks EXCEPT ![j].pc = "audit", ![j].idx = 1]
    /\ executor_queue' = Append(executor_queue, j)
    /\ calls' = [calls EXCEPT ![j].auditor = @ + 1]
    /\ UNCHANGED << executor_running, generator_log >>
    /\ UNCHANGED requestVars

\* The audit call has ended; up to the generation call or the end.
SingleAuditorReturns(j, answer) ==
    /\ Resumes(j, "audit")
    /\ tasks[j].kind = "single"
    /\ executor_running' = executor_running \ {j}
    /\ UNCHANGED requestVars
    /\ LET out == audit_room(answer) IN
       IF out.raised
       THEN /\ JOBS' = [JOBS EXCEPT ![j] = JobFailed(@)]
            /\ tasks' = [tasks EXCEPT ![j].pc = "done"]
            /\ UNCHANGED << executor_queue, calls, generator_log >>
       ELSE LET result == AuditedResult(1, tasks[j].url, out.value)
                job == [JOBS[j] EXCEPT !.audit_progress = 100,
                                       !.results = Append(@, result),
                                       !.current_status = << "Generating image", 1, 1 >>]
                task == [tasks[j] EXCEPT !.audit_results = << result >>]
            IN  IF HasPrompts(out.value)
                THEN /\ JOBS' = [JOBS EXCEPT ![j] = job]
                     /\ tasks' = [tasks EXCEPT ![j] = [task EXCEPT !.pc = "generate"]]
                     /\ executor_queue' = Append(executor_queue, j)
                     /\ calls' = [calls EXCEPT ![j].generator = @ + 1]
                     /\ generator_log' = Logged(generator_log,
                            GenArgs(tasks[j].url, out.value,
                                    tasks[j].wheelchair_accessible))
                ELSE /\ JOBS' = [JOBS EXCEPT ![j] = SingleCompleted(job)]
                     /\ tasks' = [tasks EXCEPT ![j] = [task EXCEPT !.pc = "done"]]
                     /\ UNCHANGED << executor_queue, calls, generator_log >>

\* The generation call has ended.  `result` is the very dictionary that was
\* appended to JOBS[job_id]["results"], so the image shows up there.
SingleGeneratorReturns(j, answer) ==
    /\ Resumes(j, "generate")
    /\ tasks[j].kind = "single"
    /\ executor_running' = executor_running \ {j}
    /\ UNCHANGED requestVars
    /\ UNCHANGED << executor_queue, calls, generator_log >>
    /\ LET result == tasks[j].audit_results[1]
           out == generate_renovation(
                      GenArgs(tasks[j].url, result.audit[1],
                              tasks[j].wheelchair_accessible), answer)
       IN  IF out.raised
           THEN /\ JOBS' = [JOBS EXCEPT ![j] = JobFailed(@)]
                /\ tasks' = [tasks EXCEPT ![j].pc = "done"]
           ELSE LET withImage ==
                        IF out.value # None
                        THEN [result EXCEPT !.renovated_image = Some(DataUri(out.value[1]))]
                        ELSE result
                IN  /\ JOBS' = [JOBS EXCEPT ![j] =
                            SingleCompleted([JOBS[j] EXCEPT !.results[1] = withImage])]
                    /\ tasks' = [tasks EXCEPT ![j].pc = "done",
                                              ![j].audit_results = << withImage >>]

\* ------------------------------------------------------ GET /job-status
\* What get_job_status returns for job_id.
JobStatus(job_id) ==
    IF job_id \notin JobIds
    THEN [error |-> "Job not found", status_code |-> 404]
    ELSE LET job == JOBS[job_id] IN
         [job_id |-> job_id, status |-> job.status,
          audit_progress |-> job.audit_progress,
          generation_progress |-> job.generation_progress,
          current_status |-> job.current_status,
          total_images |-> job.total_images,
          property_info |-> job.property_info,
          results |-> job.results, error |-> job.error]

\* Mutant: the lookup of an unknown id leaves a record behind (JOBS as a
\* dictionary with a default).
get_job_status_Registers(job_id) ==
    /\ LoopFree
    /\ IF job_id \in JobIds
       THEN UNCHANGED vars
       ELSE /\ JOBS' = Append(JOBS, NewJob(0))
            /\ tasks' = Append(tasks, [NewTask("listing", 0, 0, FALSE) EXCEPT !.pc = "done"])
            /\ calls' = Append(calls, NoCalls)
            /\ UNCHANGED << executor_queue, executor_running, generator_log >>
            /\ UNCHANGED requestVars

\* The handler only reads JOBS.
get_job_status(job_id) ==
    /\ LoopFree
    /\ UNCHANGED vars

\* ------------------------------------------------ POST /generate-renovation
NoResponse == [success |-> FALSE, renovated_image |-> None, original_url |-> None,
               cached |-> None, error |-> None]
FailureResponse(msg) == [NoResponse EXCEPT !.error = Some(msg)]
\* Mutant: every successful answer says it was generated.
SuccessResponse_NeverCached(image, url, cached) ==
    [success |-> TRUE, renovated_image |-> Some(image), original_url |-> Some(url),
     cached |-> Some(FALSE), error |-> None]

SuccessResponse(image, url, cached) ==
    [success |-> TRUE, renovated_image |-> Some(image), original_url |-> Some(url),
     cached |-> Some(cached), error |-> None]

RequestIds == 1..Len(requests)
RequestKey(r) ==
    CacheKey(requests[r].image_url, requests[r].audit_data,
             requests[r].wheelchair_accessible)
RequestArgs(r) ==
    GenArgs(requests[r].image_url, requests[r].audit_data,
            requests[r].wheelchair_accessible)

\* Mutant: the result is returned but not stored.
CachePut_Dropped(cache, key, value) == cache

\* Mutant: the store starts the cache afresh.
CachePut_Replaces(cache, key, value) == [k \in {key} |-> value]

\* image_generation_cache[cache_key] = value
CachePut(cache, key, value) ==
    [k \in DOMAIN cache \cup {key} |-> IF k = key THEN value ELSE cache[k]]

\* A GenerateRenovationRequest that waits for its handler to run.
\* overlaps: the earlier requests that were not answered when it arrived.
NewRequest(image_url, audit_data, wc, overlaps) ==
    [image_url |-> image_url, audit_data |-> audit_data,
     wheelchair_accessible |-> wc, state |-> "pending",
     overlaps |-> overlaps, invoked |-> FALSE, response |-> NoResponse]

\* A request reaches the server; the handler runs once the event loop is free.
ReceiveGenerateRequest(limit, image_url, audit_data, wc) ==
    /\ Len(requests) < limit
    /\ requests' = Append(requests,
           NewRequest(image_url, audit_data, wc,
                      {i \in RequestIds : requests[i].state # "done"}))
    /\ UNCHANGED << image_generation_cache, blocking_call, generator_log >>
    /\ UNCHANGED jobVars

\* generate_renovation_endpoint up to the generate_renovation call: the early
\* return without prompts, the cache hit, or the call itself, which runs on
\* the event loop and blocks it until it returns.
generate_renovation_endpoint(r) ==
    /\ LoopFree
    /\ r \in RequestIds
    /\ requests[r].state = "pending"
    /\ UNCHANGED jobVars
    /\ IF ~HasPrompts(requests[r].audit_data)
       THEN /\ requests' = [requests EXCEPT ![r].state = "done",
                   ![r].response = FailureResponse("No renovation prompts found in audit data")]
            /\ UNCHANGED << image_generation_cache, blocking_call, generator_log >>
       ELSE IF CacheHit(image_generation_cache, RequestKey(r))
       THEN LET cached_result == image_generation_cache[RequestKey(r)] IN
            /\ requests' = [requests EXCEPT ![r].state = "done",
                   ![r].response = SuccessResponse(cached_result.renovated_image,
                                                   cached_result.original_url, TRUE)]
            /\ UNCHANGED << image_generation_cache, blocking_call, generator_log >>
       ELSE /\ requests' = [requests EXCEPT ![r].state = "running", ![r].invoked = TRUE]
            /\ blocking_call' = r
            /\ generator_log' = Logged(generator_log, RequestArgs(r))
            /\ UNCHANGED image_generation_cache

\* Mutant: the store is made before the result is tested, so that a call
\* without an image leaves an entry behind.
GenerationReturns_StoresFirst(r, answer) ==
    /\ blocking_call = r
    /\ r \in RequestIds
    /\ blocking_call' = 0
    /\ UNCHANGED jobVars
    /\ UNCHANGED generator_log
    /\ LET out == generate_renovation(RequestArgs(r), answer) IN
       IF out.raised
       THEN /\ requests' = [requests EXCEPT ![r].state = "done",
                   ![r].response = FailureResponse("Generation failed")]
            /\ UNCHANGED image_generation_cache
       ELSE /\ image_generation_cache' =
                   CachePut(image_generation_cache, RequestKey(r),
                            [renovated_image |-> DataUri(answer),
                             original_url |-> requests[r].image_url])
            /\ requests' = [requests EXCEPT ![r].state = "done",
                   ![r].response =
                       IF out.value # None
                       THEN SuccessResponse(DataUri(out.value[1]),
                                            requests[r].image_url, FALSE)
                       ELSE FailureResponse("Image generation returned no data")]

\* The inline generate_renovation call returns: store and answer, or fail.
GenerationReturns(r, answer) ==
    /\ blocking_call = r
    /\ r \in RequestIds
    /\ blocking_call' = 0
    /\ UNCHANGED jobVars
    /\ UNCHANGED generator_log
    /\ LET out == generate_renovation(RequestArgs(r), answer) IN
       IF out.raised
       THEN /\ requests' = [requests EXCEPT ![r].state = "done",
                   ![r].response = FailureResponse("Generation failed")]
            /\ UNCHANGED image_generation_cache
       ELSE IF out.value # None
       THEN LET renovated_image_base64 == DataUri(out.value[1]) IN
            /\ image_generation_cache' =
                   CachePut(image_generation_cache, RequestKey(r),
                            [renovated_image |-> renovated_image_base64,
                             original_url |-> requests[r].image_url])
            /\ requests' = [requests EXCEPT ![r].state = "done",
                   ![r].response = SuccessResponse(renovated_image_base64,
                                                   requests[r].image_url, FALSE)]
       ELSE /\ requests' = [requests EXCEPT ![r].state = "done",
                   ![r].response = FailureResponse("Image generation returned no data")]
            /\ UNCHANGED image_generation_cache

\* ------------------------------------------------ POST /test-renovation
\* blocking_call while the generate_renovation call of test_renovation runs.
TestRenovation == -1

\* generate_renovation(image_url, image_gen_prompt, mask_prompt): every other
\* parameter takes its default.
TestArgs(image_url, image_gen_prompt, mask_prompt) ==
    [image_url |-> image_url, prompt |-> image_gen_prompt, mask_prompt |-> mask_prompt,
     is_two_pass |-> FALSE, clear_mask |-> None, clear_prompt |-> None,
     build_mask |-> None, build_prompt |-> None, wheelchair_accessible |-> FALSE]

\* How often generate_renovation was called with these arguments.
CallCount(log, args) == IF args \in DOMAIN log THEN log[args] ELSE 0

\* test_renovation up to its generate_renovation call, which runs on the
\* event loop and blocks it until it returns (at most `limit` such calls).
test_renovation(limit, image_url, image_gen_prompt, mask_prompt) ==
    /\ LoopFree
    /\ CallCount(generator_log, TestArgs(image_url, image_gen_prompt, mask_prompt)) < limit
    /\ blocking_call' = TestRenovation
    /\ generator_log' =
           Logged(generator_log, TestArgs(image_url, image_gen_prompt, mask_prompt))
    /\ UNCHANGED << image_generation_cache, requests >>
    /\ UNCHANGED jobVars

\* The call returns or raises; the handler answers with the image or with a
\* failure and keeps nothing.
TestRenovationReturns(answer) ==
    /\ blocking_call = TestRenovation
    /\ blocking_call' = 0
    /\ UNCHANGED << image_generation_cache, requests, generator_log >>
    /\ UNCHANGED jobVars

\* ------------------------------------------------------ specifications
\* The steps of the jobs, whatever created them, for the given outcomes of
\* the scraper, the auditor and the image model.
JobStep(scraped, audited, answers) ==
    \/ WorkerStart
    \/ \E j \in JobIds : StartListingJob(j)
    \/ \E j \in JobIds, out \in scraped : ScraperReturns(j, out)
    \/ \E j \in JobIds, answer \in audited : AuditorReturns(j, answer)
    \/ \E j \in JobIds, answer \in answers : GeneratorReturns(j, answer)
    \/ \E j \in JobIds : StartSingleJob(j)
    \/ \E j \in JobIds, answer \in audited : SingleAuditorReturns(j, answer)
    \/ \E j \in JobIds, answer \in answers : SingleGeneratorReturns(j, answer)
    \/ \E job_id \in 1..(Len(JOBS) + 1) : get_job_status(job_id)

\* The steps of the on-demand requests.
RequestStep(answers) ==
    \/ \E r \in RequestIds : generate_renovation_endpoint(r)
    \/ \E r \in RequestIds, answer \in answers : GenerationReturns(r, answer)

\* SpecJob: one job of either kind, with every input and every collaborator
\* outcome.  A job shares nothing with another job but the pool.
NextJob ==
    \/ \E image_url \in ImageUrls, wc \in BOOLEAN : analyze(1, image_url, wc)
    \/ \E max_images \in MaxImagesValues, wc \in BOOLEAN :
           analyze_from_listing(1, max_images, wc)
    \/ JobStep(ScraperOutcomes, AuditAnswers, GeminiAnswers)

SpecJob == Init /\ [][NextJob]_vars

\* SpecCache: the on-demand requests alone.
NextCache ==
    \/ \E image_url \in RequestUrls, audit_data \in RequestAudits, wc \in BOOLEAN :
           ReceiveGenerateRequest(MaxRequests, image_url, audit_data, wc)
    \/ RequestStep(GeminiAnswers)

SpecCache == Init /\ [][NextCache]_vars

\* Spec: the whole server, jobs and on-demand requests interleaved, on a
\* listing of at most two photos of which the auditor finds a barrier with a
\* single-pass fix, finds none, or fails.
SystemScraped ==
    {Returned(Listing(None, photos)) : photos \in {<< >>, << 1 >>, << 1, 2 >>}}
        \cup {Returned(Listing(Some("scrape error"), << >>))}
SystemAudited == {SinglePassAudit, NoBarrierAudit, MalformedAudit}
SystemAnswers == {"imgA", "no_parts"}

Next ==
    \/ analyze(MaxJobs, 1, FALSE)
    \/ analyze_from_listing(MaxJobs, 5, FALSE)
    \/ JobStep(SystemScraped, SystemAudited, SystemAnswers)
    \/ \E audit_data \in {SinglePassAudit, NoMaskAudit} :
           ReceiveGenerateRequest(MaxRequests, 1, audit_data, FALSE)
    \/ RequestStep(SystemAnswers)

Spec == Init /\ [][Next]_vars

\* SpecJobs: the jobs of Spec without the on-demand requests.
NextJobs ==
    \/ analyze(MaxJobs, 1, FALSE)
    \/ analyze_from_listing(MaxJobs, 5, FALSE)
    \/ JobStep(SystemScraped, SystemAudited, SystemAnswers)

SpecJobs == Init /\ [][NextJobs]_vars

\* FairSpecRun: one job on a server that keeps running, with an auditor that
\* fails or finds a barrier.  The event loop resumes a coroutine whose await
\* is over, a pool thread takes a submitted call, and a collaborator call
\* comes back (with a result or an exception).
RunAudited == {MalformedAudit, SinglePassAudit}

NextRun ==
    \/ analyze(1, 1, FALSE)
    \/ \E max_images \in MaxImagesValues : analyze_from_listing(1, max_images, FALSE)
    \/ JobStep(ScraperOutcomes, RunAudited, SystemAnswers)

FairSpecRun ==
    Init /\ [][NextRun]_vars
         /\ WF_vars(JobStep(ScraperOutcomes, RunAudited, SystemAnswers))

\* SpecPool: more jobs than the pool has threads, next to one request of each
\* endpoint that generates on demand; every audit finds a barrier and every
\* generation gives an image.
MaxPoolJobs == 4

NextPool ==
    \/ analyze(MaxPoolJobs, 1, FALSE)
    \/ WorkerStart
    \/ \E j \in JobIds : StartSingleJob(j)
    \/ \E j \in JobIds : SingleAuditorReturns(j, SinglePassAudit)
    \/ \E j \in JobIds : SingleGeneratorReturns(j, "imgA")
    \/ \E job_id \in 1..(Len(JOBS) + 1) : get_job_status(job_id)
    \/ ReceiveGenerateRequest(1, 1, SinglePassAudit, FALSE)
    \/ RequestStep({"imgA"})
    \/ test_renovation(1, 1, "p", "m")
    \/ TestRenovationReturns("imgA")

SpecPool == Init /\ [][NextPool]_vars

\* SpecKey: two requests for one image that have arrived together, with
\* every pattern of empty and non-empty structural fields.
KeyAudits ==
    {AuditData("stairs", "p", "m", cm, cp, bm, bp) :
        cm \in {"", "cm"}, cp \in {"", "cp"}, bm \in {"", "bm"},
        bp \in {"", "bp", "bp2"}}

InitKey ==
    /\ JOBS = << >>
    /\ tasks = << >>
    /\ executor_queue = << >>
    /\ executor_running = {}
    /\ image_generation_cache = << >>
    /\ requests \in {<< NewRequest(1, a1, wc1, {}), NewRequest(1, a2, wc2, {1}) >> :
                         a1 \in KeyAudits, a2 \in KeyAudits,
                         wc1 \in BOOLEAN, wc2 \in BOOLEAN}
    /\ blocking_call = 0
    /\ calls = << >>
    /\ generator_log = << >>

NextKey == RequestStep(SystemAnswers)

SpecKey == InitKey /\ [][NextKey]_vars

\* SpecFrame: jobs of both kinds side by side, on a listing of one photo
\* or a failed fetch, next to one on-demand request that generates an image.
FrameScraped ==
    {Returned(Listing(None, << 1 >>)), Returned(Listing(Some("scrape error"), << >>))}

NextFrame ==
    \/ analyze(MaxJobs, 1, FALSE)
    \/ analyze_from_listing(MaxJobs, 5, FALSE)
    \/ JobStep(FrameScraped, RunAudited, {"imgA"})
    \/ ReceiveGenerateRequest(1, 1, SinglePassAudit, FALSE)
    \/ RequestStep({"imgA"})

SpecFrame == Init /\ [][NextFrame]_vars

\* SpecRender: one job and one on-demand request next to each other, on a
\* listing of two photos, with audits that carry all four structural fields
\* or only some of them.
RenderAudited == {SinglePassAudit, TwoPassAudit}

NextRender ==
    \/ \E wc \in BOOLEAN : analyze(1, 1, wc)
    \/ \E wc \in BOOLEAN : analyze_from_listing(1, 5, wc)
    \/ JobStep({Returned(Listing(None, << 1, 2 >>))}, RenderAudited, {"imgA"})
    \/ \E audit_data \in RequestAudits, wc \in BOOLEAN :
           ReceiveGenerateRequest(1, 1, audit_data, wc)
    \/ RequestStep({"imgA"})

SpecRender == Init /\ [][NextRender]_vars

\* SpecPrompts: on-demand requests for one image whose audit data has both
\* prompts, lacks the mask, lacks the prompt, or lacks both.
NoPromptAudit == AuditData("stairs", "", "m", "", "", "bm", "bp")
PromptAudits == {NoBarrierAudit, NoMaskAudit, NoPromptAudit, SinglePassAudit}

NextPrompts ==
    \/ \E audit_data \in PromptAudits :
           ReceiveGenerateRequest(MaxRequests, 1, audit_data, FALSE)
    \/ RequestStep(SystemAnswers)

SpecPrompts == Init /\ [][NextPrompts]_vars

\* ------------------------------------------------------ observations
ListingJobs == {j \in JobIds : tasks[j].kind = "listing"}
SingleJobs == {j \in JobIds : tasks[j].kind = "single"}
Finished(j) == tasks[j].pc = "done"

\* The items of job j whose audit call raised.
FailedAudits(j) ==
    {i \in 1..Len(tasks[j].audit_results) : tasks[j].audit_results[i].audit = None}

\* The entries a status poll shows that carry an error and no image.
ErrorEntries(j) ==
    {i \in 1..Len(JobStatus(j).results) :
        /\ JobStatus(j).results[i].error # None
        /\ JobStatus(j).results[i].renovated_image = None}

\* The listing job j has audited all its N >= 1 items and run to its end.
AuditedAll(j) ==
    /\ j \in ListingJobs
    /\ Finished(j)
    /\ JOBS[j].total_images >= 1
    /\ Len(tasks[j].audit_results) = JOBS[j].total_images

\* ------------------------------------------------------------------ C1
\* C1: a listing job of N >= 1 items whose audit fails on exactly one item k
\* ends completed, and a status poll then shows exactly N results, exactly
\* one of them with an error and without a rendered image.
C1_PerItemIsolation ==
    \A j \in JobIds :
        (AuditedAll(j) /\ Cardinality(FailedAudits(j)) = 1) =>
            /\ JobStatus(j).status = "completed"
            /\ Len(JobStatus(j).results) = JOBS[j].total_images
            /\ Cardinality(ErrorEntries(j)) = 1

\* ------------------------------------------------------------------ C2
\* C2: in every state a status poll can see, both progress counters of a job
\* are 100 exactly when the job's status is completed.
C2_BothHundredIffCompleted ==
    \A j \in JobIds :
        (JobStatus(j).audit_progress = 100 /\ JobStatus(j).generation_progress = 100)
            <=> JobStatus(j).status = "completed"

\* A completed listing job whose last audit failed, so that only the
\* completion brought its audit counter to 100.
C2_Witness ==
    \E j \in ListingJobs :
        /\ JobStatus(j).status = "completed"
        /\ JOBS[j].total_images \in FailedAudits(j)
        /\ JobStatus(j).audit_progress = 100

\* ------------------------------------------------------------------ C3
C3_ProgressInRange ==
    \A j \in JobIds :
        /\ JobStatus(j).audit_progress \in 0..100
        /\ JobStatus(j).generation_progress \in 0..100

C3_ProgressStep ==
    \A j \in JobIds :
        /\ JobStatus(j).audit_progress' >= JobStatus(j).audit_progress
        /\ JobStatus(j).generation_progress' >= JobStatus(j).generation_progress

\* C3: from one status poll to any later one neither progress counter of a
\* job decreases, and both are always integers between 0 and 100.  (A poll
\* sees the state between two steps, so the counters of two successive polls
\* are those of two states joined by steps.)
C3_ProgressMonotone == [](C3_ProgressInRange) /\ [][C3_ProgressStep]_vars

\* Both counters strictly inside the range, after they have moved twice.
C3_Witness ==
    \E j \in ListingJobs :
        /\ JobStatus(j).audit_progress = 66
        /\ JobStatus(j).generation_progress = 33

\* ------------------------------------------------------------------ C4
\* C4: a job is failed only by its fetch; no job of either entry point is
\* failed once an auditor or generator call has been made for one of its items.
C4_FailedOnlyByFetch ==
    \A j \in JobIds :
        JobStatus(j).status = "failed" =>
            calls[j].auditor = 0 /\ calls[j].generator = 0

\* ------------------------------------------------------ observations
Answered(r) == requests[r].state = "done"

\* Request i was answered before request j arrived.
Sequential(i, j) == i < j /\ i \notin requests[j].overlaps
\* Request j arrived while request i was not answered yet.
Concurrent(i, j) == i < j /\ i \in requests[j].overlaps

SameParameters(i, j) ==
    /\ requests[i].image_url = requests[j].image_url
    /\ requests[i].audit_data = requests[j].audit_data
    /\ requests[i].wheelchair_accessible = requests[j].wheelchair_accessible

\* Both requests get as far as the cache and look up the same key.
SameKey(i, j) ==
    /\ HasPrompts(requests[i].audit_data)
    /\ HasPrompts(requests[j].audit_data)
    /\ RequestKey(i) = RequestKey(j)

\* The generate_renovation call made for request r gave no image.
GenerationFailed(r) ==
    requests[r].invoked /\ Answered(r) /\ ~requests[r].response.success

\* The answered requests whose own generate_renovation call wrote the key.
Writers(key) ==
    {r \in RequestIds :
        /\ Answered(r)
        /\ HasPrompts(requests[r].audit_data)
        /\ RequestKey(r) = key
        /\ requests[r].response.cached = Some(FALSE)}

SameArtifactAtMostOneCall(i, j) ==
    /\ requests[j].response.renovated_image = requests[i].response.renovated_image
    /\ ~(requests[i].invoked /\ requests[j].invoked)

NeverOverwritten ==
    \A r \in RequestIds :
        (Answered(r) /\ HasPrompts(requests[r].audit_data)
            /\ requests[r].response.cached = Some(FALSE)) =>
                /\ RequestKey(r) \in DOMAIN image_generation_cache
                /\ Some(image_generation_cache[RequestKey(r)].renovated_image)
                       = requests[r].response.renovated_image

C7_GeneratorOncePerParameters ==
    \A args \in DOMAIN generator_log : generator_log[args] <= 1

\* ------------------------------------------------------------------ C8
\* The key under which the item that job j submits to the generator in this
\* step would be cached.
SubmittedKey(j) ==
    LET task == tasks'[j]
        result == task.audit_results[task.idx]
    IN  CacheKey(result.original_url, result.audit[1], task.wheelchair_accessible)

\* C8: a job calls the generator for an item only when the item's cache key
\* is not in the result cache (a cached artifact is reused instead).
C8_JobGeneratesOnlyOnMiss ==
    [][\A j \in JobIds :
          calls'[j].generator > calls[j].generator =>
              SubmittedKey(j) \notin DOMAIN image_generation_cache]_vars

\* ------------------------------------------------------------------ C9
\* The scraper call of listing job j ended with an exception, with an error
\* or with a listing without photos.
FetchFatal(j) ==
    /\ j \in ListingJobs
    /\ \/ Finished(j) /\ tasks[j].listing_data = None
       \/ /\ tasks[j].listing_data # None
          /\ \/ tasks[j].listing_data[1].error # None
             \/ tasks[j].listing_data[1].property_photos = << >>

\* C9: after a scraper error or a listing of zero items the job is failed with
\* an error, shows no results and zero items, and neither the auditor nor the
\* generator has been called for it.
C9_FetchFatalFailsJob ==
    \A j \in JobIds :
        FetchFatal(j) =>
            /\ Finished(j)
            /\ JobStatus(j).status = "failed"
            /\ JobStatus(j).error # None
            /\ JobStatus(j).results = << >>
            /\ JobStatus(j).total_images = 0
            /\ calls[j].auditor = 0
            /\ calls[j].generator = 0

\* The scraper succeeded on a listing without photos.
C9_Witness ==
    \E j \in JobIds :
        /\ FetchFatal(j)
        /\ tasks[j].listing_data = Some(Listing(None, << >>))

\* ------------------------------------------------------------------ C10
\* Every one of the N >= 1 items of job j was audited as free of barriers.
AllBarrierFree(j) ==
    /\ AuditedAll(j)
    /\ \A i \in 1..Len(tasks[j].audit_results) :
          /\ tasks[j].audit_results[i].audit # None
          /\ tasks[j].audit_results[i].audit[1].barrier_detected \in NoBarrierTexts

\* C10: a listing job whose N >= 1 items are all reported free of barriers
\* ends completed with generation_progress 100 and N results, none with a
\* rendered image, and the generator was never called.
C10_AllBarrierFree ==
    \A j \in JobIds :
        AllBarrierFree(j) =>
            /\ JobStatus(j).status = "completed"
            /\ JobStatus(j).generation_progress = 100
            /\ Len(JobStatus(j).results) = JOBS[j].total_images
            /\ \A i \in 1..Len(JobStatus(j).results) :
                   JobStatus(j).results[i].renovated_image = None
            /\ calls[j].generator = 0

\* Several barrier-free items, one of which the image model sent with prompts.
C10_Witness ==
    \E j \in JobIds :
        /\ AllBarrierFree(j)
        /\ JOBS[j].total_images >= 2
        /\ \E i \in 1..Len(tasks[j].audit_results) :
               tasks[j].audit_results[i].audit[1].barrier_detected
                   = "room is already accessible"

\* ------------------------------------------------------------------ C11
\* The scraper call of listing job j gave N >= 1 items to audit.
FetchedItems(j) ==
    /\ j \in ListingJobs
    /\ tasks[j].listing_data # None
    /\ JOBS[j].total_images >= 1

\* No audit call of job j has returned a payload so far.
NoAuditSucceeded(j) ==
    /\ j \in JobIds
    /\ \A i \in 1..Len(tasks[j].audit_results) :
           tasks[j].audit_results[i].audit = None

\* C11: a listing job whose fetch gave N >= 1 items and whose audit calls all
\* fail is never failed, and it eventually is completed.
C11_AllAuditsFailCompletes ==
    \A j \in 1..MaxJobs :
        /\ [](FetchedItems(j) /\ NoAuditSucceeded(j) => JobStatus(j).status # "failed")
        /\ FetchedItems(j) ~>
               (NoAuditSucceeded(j) => JobStatus(j).status = "completed")

\* A completed listing job of several items, every audit of which failed.
C11_Witness ==
    \E j \in ListingJobs :
        /\ FetchedItems(j) /\ NoAuditSucceeded(j)
        /\ JOBS[j].total_images >= 2
        /\ Len(tasks[j].audit_results) = JOBS[j].total_images
        /\ JobStatus(j).status = "completed"

\* ------------------------------------------------------------------ C12
\* C12: in every state a status poll can see, the error field of a job is
\* set exactly when the job's status is failed.
C12_ErrorIffFailed ==
    \A j \in JobIds :
        JobStatus(j).error # None <=> JobStatus(j).status = "failed"

\* A single-image job failed by the exception of its audit call.
C12_Witness ==
    \E j \in SingleJobs :
        /\ JobStatus(j).status = "failed"
        /\ JobStatus(j).error = Some("Job failed")
        /\ calls[j].auditor = 1

\* ------------------------------------------------------------------ C13
Terminal(j) == JOBS[j].status \in {"completed", "failed"}

\* C13: once the status of a job is completed or failed, no step of the
\* server, of this job or of another, changes any field of its record.
C13_TerminalFrozen ==
    [][\A j \in JobIds : Terminal(j) => JOBS'[j] = JOBS[j]]_vars

\* Two jobs that ended differently: the one that ended first has seen the
\* later steps of the other.
C13_Witness ==
    \E i, k \in JobIds :
        /\ JOBS[i].status = "failed"
        /\ JOBS[k].status = "completed" /\ calls[k].generator >= 1

\* ------------------------------------------------------------------ C14
\* The endpoint has inserted job j and returned its id; the coroutine it
\* scheduled has not run yet.
JustCreated(j) == tasks[j].pc = "created"

\* The record of job j as inserted, with `total` items, and no collaborator
\* call made for the job.
InsertedWith(j, total) ==
    /\ JobStatus(j).status = "processing"
    /\ JobStatus(j).total_images = total
    /\ JobStatus(j).audit_progress = 0
    /\ JobStatus(j).generation_progress = 0
    /\ JobStatus(j).results = << >>
    /\ JobStatus(j).property_info = None
    /\ JobStatus(j).error = None
    /\ calls[j] = NoCalls

\* C14 as stated: a job of either entry point is inserted as processing with
\* zero items, zero progress, no results, no property info and no error, and
\* its id is returned before a collaborator call is made for it.
C14_InsertedZeroValued ==
    \A j \in JobIds : JustCreated(j) => InsertedWith(j, 0)

\* C14 amended: the same with one item for a job of /analyze, whose item
\* count is known when it is created.
C14_InsertedInitial ==
    \A j \in JobIds :
        JustCreated(j) =>
            InsertedWith(j, IF tasks[j].kind = "single" THEN 1 ELSE 0)

\* A single-image job between its insertion and the start of its coroutine.
C14_Witness ==
    \E j \in SingleJobs : JustCreated(j) /\ JobStatus(j).total_images = 1

\* ------------------------------------------------------------------ C15
\* The collaborator calls that are running: those on the pool threads and the
\* one a request handler makes on the event loop.
InFlight ==
    Cardinality(executor_running) + (IF blocking_call = 0 THEN 0 ELSE 1)

\* C15: at most max_workers collaborator calls run at the same time, over
\* all jobs and all request handlers.
C15_InFlightWithinPool == InFlight <= max_workers

\* ------------------------------------------------------------------ C16
\* C16: no collaborator call runs on the event loop: whenever a collaborator
\* call is running, a status poll (of a known or an unknown job) can be served
\* at once.
C16_StatusNeverBlocked ==
    InFlight > 0 =>
        \A job_id \in 1..(Len(JOBS) + 1) : ENABLED get_job_status(job_id)

\* ------------------------------------------------------------------ C17
\* C17: a key that is in the result cache stays in it, with the artifact and
\* the source URL stored under it, through every step of every request.
C17_CacheAppendOnly ==
    [][\A key \in DOMAIN image_generation_cache :
          /\ key \in DOMAIN image_generation_cache'
          /\ image_generation_cache'[key] = image_generation_cache[key]]_vars

\* A second key was stored while the first was in the cache.
C17_Witness == Cardinality(DOMAIN image_generation_cache) >= 2

\* ------------------------------------------------------------------ C18
\* Neither request is eligible for the two-pass workflow, and the two agree
\* on image, prompt, mask and mode flag.
SameSinglePassParameters(i, j) ==
    /\ requests[i].image_url = requests[j].image_url
    /\ requests[i].audit_data.image_gen_prompt = requests[j].audit_data.image_gen_prompt
    /\ requests[i].audit_data.mask_prompt = requests[j].audit_data.mask_prompt
    /\ requests[i].wheelchair_accessible = requests[j].wheelchair_accessible
    /\ ~IsTwoPass(requests[i].audit_data)
    /\ ~IsTwoPass(requests[j].audit_data)

\* C18: two requests that are not eligible for two passes and agree on image,
\* prompt, mask and mode flag look up the same cache key, whatever their
\* structural fields hold; and so do two requests for which the generator
\* would be called with the same arguments.
C18_KeyCanonical ==
    \A i, j \in RequestIds :
        /\ SameSinglePassParameters(i, j) => RequestKey(i) = RequestKey(j)
        /\ RequestArgs(i) = RequestArgs(j) => RequestKey(i) = RequestKey(j)

\* A request served from the entry that a request with other structural
\* fields has stored.
C18_Witness ==
    \E i, j \in RequestIds :
        /\ SameSinglePassParameters(i, j)
        /\ requests[i].audit_data # requests[j].audit_data
        /\ requests[i].response.cached = Some(FALSE)
        /\ requests[j].response.cached = Some(TRUE)

\* ------------------------------------------------------------------ C19
\* The entry comes from an audit that succeeded and gave both prompts, the
\* generator was called with the entry's arguments, and the image of the
\* entry is one the image model returned.
Generated(j, result) ==
    /\ result.audit # None
    /\ HasPrompts(result.audit[1])
    /\ GenArgs(result.original_url, result.audit[1],
               tasks[j].wheelchair_accessible) \in DOMAIN generator_log
    /\ result.renovated_image \in {Some(DataUri(bytes)) : bytes \in Images}

\* C19: an entry of a job's results carries a rendered image only if its
\* audit succeeded and found a barrier (both prompts non-empty) and the
\* generator returned an image for it.
C19_ArtifactOnlyIfGenerated ==
    \A j \in JobIds :
        \A i \in 1..Len(JobStatus(j).results) :
            JobStatus(j).results[i].renovated_image # None =>
                Generated(j, JobStatus(j).results[i])

\* A later entry has its image next to an earlier entry that has none.
C19_Witness ==
    \E j \in ListingJobs :
        \E i, k \in 1..Len(JobStatus(j).results) :
            /\ i < k
            /\ JobStatus(j).results[i].renovated_image = None
            /\ JobStatus(j).results[k].renovated_image # None

\* ------------------------------------------------------------------ C20
\* The audit of the entry failed, or its outcome reports no barrier: the
\* barrier text says so, or a prompt is missing.
Skippable(result) ==
    \/ result.audit = None
    \/ result.audit[1].barrier_detected \in NoBarrierTexts
    \/ ~HasPrompts(result.audit[1])

\* The generation phase leaves the error of an entry as the audit set it:
\* an error exactly on the entries without an audit.
ErrorsFromAuditOnly ==
    \A j \in JobIds :
        \A i \in 1..Len(tasks[j].audit_results) :
            tasks[j].audit_results[i].error # None
                <=> tasks[j].audit_results[i].audit = None

\* The step submits a generate_renovation call of job j for a skippable entry.
SubmitsSkippable(j) ==
    /\ calls'[j].generator > calls[j].generator
    /\ Skippable(tasks'[j].audit_results[tasks'[j].idx])

\* C20: a job never calls the generator for an item whose audit failed or
\* whose audit reports no barrier, and passing over such an item records no
\* error on it.
C20_SkippedNeverGenerated ==
    /\ []ErrorsFromAuditOnly
    /\ [][\A j \in JobIds : ~SubmitsSkippable(j)]_vars

\* A finished listing job that generated for one item and passed over a
\* failed audit and an audit without barrier.
C20_Witness ==
    \E j \in ListingJobs :
        /\ Finished(j)
        /\ calls[j].generator >= 1
        /\ \E i, k \in 1..Len(tasks[j].audit_results) :
              /\ tasks[j].audit_results[i].audit = None
              /\ tasks[j].audit_results[k].audit # None
              /\ Skippable(tasks[j].audit_results[k])
              /\ tasks[j].audit_results[k].error = None

\* ------------------------------------------------------------------ C21
\* The job ids a poll may ask for that are not in the registry.
UnknownIds == (1..(Len(JOBS) + 1)) \ JobIds

\* get_job_status answers an unknown id with the not-found value.
NotFoundReturned ==
    \A job_id \in UnknownIds :
        JobStatus(job_id) = [error |-> "Job not found", status_code |-> 404]

\* C21: a status poll of an id that is not in the registry returns the
\* not-found value instead of raising, and the step leaves the registry and
\* every job record as they were.
C21_UnknownIdNotFound ==
    /\ []NotFoundReturned
    /\ [][\A job_id \in UnknownIds : get_job_status(job_id) => JOBS' = JOBS]_vars

\* An unknown id can be polled while the registry holds a finished job.
C21_Witness ==
    /\ \E j \in JobIds : Finished(j)
    /\ \E job_id \in UnknownIds : ENABLED get_job_status(job_id)

\* ------------------------------------------------------------------ C23
\* The coroutine of a job has ended exactly when the job has a terminal
\* status: nothing ends it otherwise.
EndsOnlyTerminal ==
    \A j \in JobIds : Finished(j) <=> Terminal(j)

\* C23: when every submitted collaborator call returns and the pool and the
\* event loop keep scheduling, every job that was started reaches the status
\* completed or failed; a coroutine never ends in another way.
C23_StartedJobTerminates ==
    /\ []EndsOnlyTerminal
    /\ \A j \in 1..MaxJobs : (j \in JobIds) ~> (j \in JobIds /\ Terminal(j))

\* A job that went through every phase to its end.
C23_Witness ==
    \E j \in ListingJobs :
        /\ Terminal(j)
        /\ calls[j].scraper = 1 /\ calls[j].auditor >= 2 /\ calls[j].generator >= 2

\* ------------------------------------------------------------------ C24
\* The scraper of listing job j returned M >= 1 photos without an error.
FetchSucceeded(j) ==
    /\ j \in ListingJobs
    /\ tasks[j].listing_data # None
    /\ tasks[j].listing_data[1].error = None
    /\ tasks[j].listing_data[1].property_photos # << >>

\* C24: after a fetch of M >= 1 items with the maximum K of the request,
\* total_images is min(M, K) and at most K, the items kept are the first
\* min(M, K) fetched ones in their order, and the job is not failed.
C24_TotalIsMinOfFetchedAndMax ==
    \A j \in JobIds :
        FetchSucceeded(j) =>
            LET photos == tasks[j].listing_data[1].property_photos
                K == tasks[j].max_images
                kept == Min(Len(photos), K)
            IN  /\ JobStatus(j).total_images = kept
                /\ JobStatus(j).total_images <= K
                /\ tasks[j].images_to_analyze = [i \in 1..kept |-> photos[i]]
                /\ JobStatus(j).status # "failed"

\* ------------------------------------------------------------------ C25
\* The audit loop of listing job j waits for the audit of item idx: the
\* items before it are finished.
AuditsFinished(j) == tasks[j].idx - 1

\* C25: in the audit phase, once item idx of N is finished, by a result or
\* by an exception, and before the audit of item idx + 1 returns, a status
\* poll shows audit_progress = floor(idx * 100 / N) and exactly idx results.
C25_AuditProgressAfterEachItem ==
    \A j \in ListingJobs :
        tasks[j].pc = "audit" =>
            /\ JobStatus(j).audit_progress
                   = (AuditsFinished(j) * 100) \div JobStatus(j).total_images
            /\ Len(JobStatus(j).results) = AuditsFinished(j)

\* ------------------------------------------------------------------ C26
\* The generation loop of listing job j waits for the generation of item
\* idx: the items before it have been considered.
GenerationsFinished(j) == tasks[j].idx - 1

\* C26: in the generation phase, once item idx of N has been considered,
\* whether it was passed over, generated or left without image, and before
\* item idx + 1 is finished, generation_progress = floor(idx * 100 / N).
C26_GenerationProgressAfterEachItem ==
    \A j \in ListingJobs :
        tasks[j].pc = "generate" =>
            JobStatus(j).generation_progress
                = (GenerationsFinished(j) * 100) \div JobStatus(j).total_images

\* ------------------------------------------------------------------ C27
\* The phases of a worker in their order.
PhaseRank(pc) ==
    CASE pc = "created" -> 0
      [] pc = "scrape" -> 1
      [] pc = "audit" -> 2
      [] pc = "generate" -> 3
      [] pc = "done" -> 4

\* The entries of job j the generation loop has to generate for.
EligibleEntries(j) ==
    {i \in 1..Len(tasks[j].audit_results) : Eligible(tasks[j].audit_results[i])}

\* A call of job j is submitted or running.
CallPending(j) ==
    \/ j \in executor_running
    \/ \E k \in 1..Len(executor_queue) : executor_queue[k] = j

PhasesInOrder(j) ==
    /\ (tasks[j].kind = "listing" /\ calls[j].auditor > 0) =>
           /\ calls[j].scraper = 1
           /\ tasks[j].listing_data # None
    /\ calls[j].generator > 0 =>
           /\ tasks[j].pc \in {"generate", "done"}
           /\ Len(tasks[j].audit_results) = JOBS[j].total_images
           /\ calls[j].auditor = JOBS[j].total_images
    /\ JobStatus(j).status = "completed" =>
           /\ Len(tasks[j].audit_results) = JOBS[j].total_images
           /\ calls[j].generator = Cardinality(EligibleEntries(j))
           /\ ~CallPending(j)

\* C27: in a job the scraper call has returned before the first auditor
\* call, every auditor call has returned before the first generator call,
\* the job is completed only when the generation loop has gone through all
\* N entries, and no phase is entered again.
C27_PhasesStrictlyOrdered ==
    /\ [](\A j \in JobIds : PhasesInOrder(j))
    /\ [][\A j \in JobIds :
             PhaseRank(tasks'[j].pc) >= PhaseRank(tasks[j].pc)]_vars

\* A completed job whose generation loop passed over its first entry and
\* generated the image of its last one.
C27_Witness ==
    \E j \in ListingJobs :
        /\ JobStatus(j).status = "completed"
        /\ JOBS[j].total_images >= 2
        /\ 1 \notin EligibleEntries(j)
        /\ tasks[j].audit_results[JOBS[j].total_images].renovated_image # None

\* ------------------------------------------------------------------ C28
\* The number of calls of job j that are submitted or running.
PendingCalls(j) ==
    Cardinality({k \in 1..Len(executor_queue) : executor_queue[k] = j})
      + (IF j \in executor_running THEN 1 ELSE 0)

\* The URL of the i-th item of job j.
ItemUrl(j, i) ==
    IF tasks[j].kind = "listing" THEN tasks[j].images_to_analyze[i] ELSE tasks[j].url

\* What a status poll shows: entry i is item i with the URL of item i.
ResultsInItemOrder ==
    \A j \in JobIds :
        LET results == JobStatus(j).results IN
        \A i \in 1..Len(results) :
            /\ results[i].image_number = i
            /\ results[i].original_url = ItemUrl(j, i)

\* The k-th auditor call of a job is the call for item k.
AuditorInOrder ==
    \A j \in JobIds :
        calls'[j].auditor # calls[j].auditor =>
            /\ calls'[j].auditor = calls[j].auditor + 1
            /\ tasks'[j].pc = "audit"
            /\ tasks'[j].idx = calls'[j].auditor

\* A generator call is for an eligible item after the item of the call
\* before it.
GeneratorInOrder ==
    \A j \in JobIds :
        calls'[j].generator # calls[j].generator =>
            /\ calls'[j].generator = calls[j].generator + 1
            /\ tasks'[j].pc = "generate"
            /\ Eligible(tasks'[j].audit_results[tasks'[j].idx])
            /\ calls[j].generator > 0 => tasks'[j].idx > tasks[j].idx

\* C28: the auditor calls of a job are made for items 1..N in increasing
\* order, the generator calls for increasing items, a job has at most one
\* call in flight, and in every state a status poll can see the i-th entry of
\* results is item i with the i-th fetched URL.
C28_CallsAndResultsInItemOrder ==
    /\ []ResultsInItemOrder
    /\ [](\A j \in JobIds : PendingCalls(j) <= 1)
    /\ [][AuditorInOrder /\ GeneratorInOrder]_vars

\* A job that shows three entries while its second generator call, for
\* item 3, is pending.
C28_Witness ==
    \E j \in ListingJobs :
        /\ Len(JobStatus(j).results) = 3
        /\ tasks[j].pc = "generate"
        /\ tasks[j].idx = 3
        /\ calls[j].generator = 2
        /\ PendingCalls(j) = 1

\* ------------------------------------------------------------------ C29
\* The generator call of job j ends in this step.
GenerationEnds(j) ==
    /\ tasks[j].pc = "generate"
    /\ j \in executor_running
    /\ j \notin executor_running'

\* The eligible entries of job j after entry idx.
EligibleAfter(j, idx) == {k \in EligibleEntries(j) : k > idx}

\* The step leaves the job processing or completed, the entry as the audit
\* left it, and the loop at the next eligible entry or at its end.
ProceedsWithoutArtifact(j) ==
    LET idx == tasks[j].idx
        entry == tasks[j].audit_results[idx]
        next == EligibleAfter(j, idx)
    IN  /\ JOBS'[j].status # "failed"
        /\ JOBS'[j].error = None
        /\ entry.audit # None
        /\ tasks'[j].audit_results[idx] = entry
        /\ Len(JOBS'[j].results) >= idx
        /\ JOBS'[j].results[idx] = entry
        /\ IF next = {}
           THEN /\ tasks'[j].pc = "done"
                /\ JOBS'[j].status = "completed"
           ELSE /\ tasks'[j].pc = "generate"
                /\ tasks'[j].idx \in next
                /\ \A k \in next : tasks'[j].idx <= k
                /\ calls'[j].generator = calls[j].generator + 1

\* C29: when the generator call for an eligible item ends without an image,
\* the job does not fail, the entry keeps its audit and gets no
\* renovated_image, and the job goes on with the next eligible item (or
\* completes).
C29_FailedGenerationIsNotFatal ==
    [][\A j \in JobIds :
          (GenerationEnds(j) /\ JOBS'[j].status = "failed") \/
          (GenerationEnds(j) /\
             tasks'[j].audit_results[tasks[j].idx].renovated_image = None)
          => ProceedsWithoutArtifact(j)]_vars

\* A listing job that is generating for a later item while an earlier
\* eligible entry has been left without an image.
C29_Witness ==
    \E j \in ListingJobs :
        /\ tasks[j].pc = "generate"
        /\ JOBS[j].status = "processing"
        /\ \E i \in EligibleEntries(j) :
              /\ i < tasks[j].idx
              /\ JobStatus(j).results[i].renovated_image = None
              /\ JobStatus(j).results[i].audit # None

\* ------------------------------------------------------------------ C30
\* The items of job j a call has been made for, counted from the position of
\* the loops: every item up to idx while the audit loop runs, all of them
\* afterwards; none before the generation loop, every eligible entry up to
\* idx while it runs, all of them at the end.
ItemsAudited(j) ==
    IF tasks[j].pc = "audit" THEN tasks[j].idx
    ELSE Len(tasks[j].audit_results)
ItemsGenerated(j) ==
    IF tasks[j].pc = "generate"
    THEN Cardinality({k \in EligibleEntries(j) : k <= tasks[j].idx})
    ELSE IF tasks[j].pc = "done" THEN Cardinality(EligibleEntries(j))
    ELSE 0

OneCallPerItem(j) ==
    /\ calls[j].scraper = (IF tasks[j].pc = "created" THEN 0 ELSE 1)
    /\ calls[j].auditor = ItemsAudited(j)
    /\ calls[j].auditor <= Len(tasks[j].images_to_analyze)
    /\ calls[j].generator = ItemsGenerated(j)
    /\ Finished(j) /\ FetchSucceeded(j) =>
           /\ calls[j].auditor = Len(tasks[j].images_to_analyze)
           /\ calls[j].auditor = JOBS[j].total_images

\* A call is never made for an item of a loop that is at or behind the
\* item of the call before it.
NeverTheSameItemAgain ==
    \A j \in ListingJobs :
        (calls'[j] # calls[j] /\ tasks'[j].pc = tasks[j].pc) =>
            tasks'[j].idx > tasks[j].idx

\* C30: a listing job calls the scraper exactly once, the auditor exactly
\* once for each of the N items it kept and for nothing else, and the
\* generator at most once for an item; no call is made again.
C30_NoRetries ==
    /\ [](\A j \in ListingJobs : OneCallPerItem(j))
    /\ [][NeverTheSameItemAgain]_vars

\* A finished listing job of three items, all audited, whose generator was
\* called for some of them only and gave no image for one of those.
C30_Witness ==
    \E j \in ListingJobs :
        /\ Finished(j)
        /\ calls[j].scraper = 1
        /\ calls[j].auditor = 3
        /\ calls[j].generator \in {1, 2}
        /\ \E i \in EligibleEntries(j) :
              tasks[j].audit_results[i].renovated_image = None

\* ------------------------------------------------------------------ C31
\* What a status poll shows of job j never has more entries than
\* total_images.
ResultsWithinTotal ==
    \A j \in JobIds : Len(JobStatus(j).results) <= JobStatus(j).total_images

\* From one state to the next the list does not get shorter and position i
\* stays with its item.
ResultsGrow ==
    \A j \in JobIds :
        /\ Len(JOBS'[j].results) >= Len(JOBS[j].results)
        /\ \A i \in 1..Len(JOBS[j].results) :
              /\ JOBS'[j].results[i].image_number = JOBS[j].results[i].image_number
              /\ JOBS'[j].results[i].original_url = JOBS[j].results[i].original_url

\* C31: in every state a poll can see, results of a job is no longer than
\* total_images; results never gets shorter, and an entry visible at
\* position i is only ever replaced by an entry for the same item.
C31_ResultsAppendReplaceOnly ==
    /\ []ResultsWithinTotal
    /\ [][ResultsGrow]_vars

\* A completed listing job whose list reached total_images = 3 and whose
\* first entry was replaced by the same item with its image.
C31_Witness ==
    \E j \in ListingJobs :
        /\ JobStatus(j).status = "completed"
        /\ JobStatus(j).total_images = 3
        /\ Len(JobStatus(j).results) = 3
        /\ JobStatus(j).results[1].renovated_image # None

\* ------------------------------------------------------------------ C32
\* The argument sets generate_renovation is called with in this step.
CalledArgs ==
    {args \in DOMAIN generator_log' :
        CallCount(generator_log', args) > CallCount(generator_log, args)}

\* args is the call for image url with audit a and flag wc: two-pass with
\* the four structural fields when all four are non-empty, single-pass with
\* none of them otherwise.
RenderSpecFor(args, url, a, wc) ==
    LET allFour == /\ a.clear_mask # "" /\ a.clear_prompt # ""
                   /\ a.build_mask # "" /\ a.build_prompt # ""
    IN  /\ args.image_url = url
        /\ args.prompt = a.image_gen_prompt
        /\ args.mask_prompt = a.mask_prompt
        /\ args.wheelchair_accessible = wc
        /\ args.is_two_pass <=> allFour
        /\ IF allFour
           THEN /\ args.clear_mask = Some(a.clear_mask)
                /\ args.clear_prompt = Some(a.clear_prompt)
                /\ args.build_mask = Some(a.build_mask)
                /\ args.build_prompt = Some(a.build_prompt)
           ELSE /\ args.clear_mask = None
                /\ args.clear_prompt = None
                /\ args.build_mask = None
                /\ args.build_prompt = None

\* The call is made by a job for the entry its loop is at.
JobCalls(args) ==
    \E j \in JobIds :
        /\ calls'[j].generator = calls[j].generator + 1
        /\ LET entry == tasks'[j].audit_results[
                            IF tasks'[j].kind = "listing" THEN tasks'[j].idx ELSE 1]
           IN  /\ entry.audit # None
               /\ RenderSpecFor(args, entry.original_url, entry.audit[1],
                                tasks'[j].wheelchair_accessible)

\* The call is made by the handler of an on-demand request.
RequestCalls(args) ==
    \E r \in RequestIds :
        /\ blocking_call' = r
        /\ blocking_call = 0
        /\ RenderSpecFor(args, requests[r].image_url, requests[r].audit_data,
                         requests[r].wheelchair_accessible)

\* C32: every generate_renovation call of a job or of an on-demand request
\* is two-pass, with the four structural fields, exactly when all four are
\* non-empty for the item; otherwise it is single-pass and the four
\* structural arguments are None.
C32_TwoPassIffAllFour ==
    [][\A args \in CalledArgs : JobCalls(args) \/ RequestCalls(args)]_vars

\* A job and a request have both called the generator, once two-pass and
\* once single-pass for an audit with stray structural fields.
C32_Witness ==
    /\ \E j \in JobIds : calls[j].generator >= 1
    /\ \E args \in DOMAIN generator_log : args.is_two_pass
    /\ \E r \in RequestIds :
          /\ requests[r].invoked
          /\ requests[r].audit_data = StrayAudit
          /\ \E args \in DOMAIN generator_log :
                ~args.is_two_pass /\ args.clear_mask = None

\* ------------------------------------------------------------------ C33
\* The records that differ after the step.
ChangedJobs == {j \in JobIds : JOBS'[j] # JOBS[j]}

\* The step belongs to the on-demand endpoint.
RequestActs ==
    \/ requests' # requests
    \/ blocking_call' # blocking_call
    \/ image_generation_cache' # image_generation_cache

\* A record changes only in a step of its own worker, which changes no other
\* record and nothing of the requests.
OwnWorkerOnly ==
    \A j \in ChangedJobs :
        /\ tasks'[j] # tasks[j]
        /\ ChangedJobs = {j}
        /\ \A k \in JobIds \ {j} : tasks'[k] = tasks[k]
        /\ ~RequestActs

\* C33: a record of JOBS is changed only by the worker of that job; a status
\* poll and an on-demand request change no record and remove none; a step of
\* one job changes nothing of another job.
C33_Frame ==
    [][/\ OwnWorkerOnly
       /\ Len(JOBS') >= Len(JOBS)
       /\ RequestActs => JOBS' = JOBS
       /\ \A job_id \in 1..(Len(JOBS) + 1) :
             get_job_status(job_id) => JOBS' = JOBS]_vars

\* Two jobs are under way at different places while a request has been
\* answered from a generation.
C33_Witness ==
    /\ \E j \in JobIds, k \in JobIds :
          /\ tasks[j].pc = "audit"
          /\ tasks[k].pc = "generate"
          /\ JOBS[j] # JOBS[k]
    /\ \E r \in RequestIds : requests[r].state = "done" /\ requests[r].invoked

\* ------------------------------------------------------------------ C34
\* C34: a completed listing job has total_images >= 1, whatever max_images
\* the request carried; a job that keeps no item does not complete.
C34_CompletedHasItems ==
    \A j \in ListingJobs :
        JobStatus(j).status = "completed" => JobStatus(j).total_images >= 1

\* ------------------------------------------------------------------ C35
\* What a request asks for, with the structural fields counted only when
\* all four are there.
NormalizedParameters(r) ==
    LET a == requests[r].audit_data
        two_pass == /\ a.clear_mask # "" /\ a.clear_prompt # ""
                    /\ a.build_mask # "" /\ a.build_prompt # ""
    IN  [source_url |-> requests[r].image_url,
         prompt |-> a.image_gen_prompt,
         mask |-> a.mask_prompt,
         two_pass |-> two_pass,
         structural |-> IF two_pass
                        THEN << a.clear_mask, a.clear_prompt, a.build_mask, a.build_prompt >>
                        ELSE << >>,
         accessibility_mode |-> requests[r].wheelchair_accessible]

\* Request r was answered from the cache.
ServedFromCache(r) ==
    /\ requests[r].state = "done"
    /\ requests[r].response.cached = Some(TRUE)

\* Request p generated the image it was answered with.
Produced(p) ==
    /\ requests[p].state = "done"
    /\ requests[p].invoked
    /\ requests[p].response.success
    /\ requests[p].response.cached = Some(FALSE)

\* C35: a request answered from the cache gets the image that a request
\* with the same normalized parameters (URL, prompt, mask, two-pass flag,
\* the structural fields when two-pass, accessibility flag) generated, and
\* the URL in the answer is its own.
C35_HitOnlyForSameParameters ==
    \A r \in RequestIds :
        ServedFromCache(r) =>
            /\ requests[r].response.original_url = Some(requests[r].image_url)
            /\ \E p \in RequestIds \ {r} :
                  /\ Produced(p)
                  /\ NormalizedParameters(p) = NormalizedParameters(r)
                  /\ requests[p].response.renovated_image =
                         requests[r].response.renovated_image

\* A request is served from the cache with the image of a request that sent
\* other stray structural fields for the same image, prompts and flag.
C35_Witness ==
    \E r \in RequestIds, p \in RequestIds :
        /\ ServedFromCache(r)
        /\ Produced(p)
        /\ requests[p].audit_data # requests[r].audit_data
        /\ requests[p].wheelchair_accessible
        /\ requests[p].response.renovated_image = requests[r].response.renovated_image

\* ------------------------------------------------------------------ C36
\* The generate_renovation call of request r ends in this step.
CallEnds(r) == blocking_call = r /\ blocking_call' = 0

\* The artifacts a successful call gives.
GeneratedArtifacts == {DataUri(bytes) : bytes \in Images}

\* Every entry of the cache is the image some request generated and was
\* answered with.
CacheHoldsGeneratedImages ==
    \A key \in DOMAIN image_generation_cache :
        /\ image_generation_cache[key].renovated_image \in GeneratedArtifacts
        /\ \E p \in RequestIds :
              /\ Produced(p)
              /\ RequestKey(p) = key
              /\ requests[p].response.renovated_image =
                     Some(image_generation_cache[key].renovated_image)

\* C36: a request whose call ends without an image is answered with a
\* failure and leaves the cache as it was; every entry of the cache is a
\* non-empty image that a successful call produced.
C36_FailureStoresNothing ==
    /\ []CacheHoldsGeneratedImages
    /\ [][\A r \in RequestIds :
             (CallEnds(r) /\ ~requests'[r].response.success) =>
                 /\ image_generation_cache' = image_generation_cache
                 /\ requests'[r].state = "done"
                 /\ requests'[r].response.error # None
                 /\ requests'[r].response.renovated_image = None]_vars

\* A request whose call failed has been answered with a failure and its key
\* is not in the cache, which holds the image of another request.
C36_Witness ==
    \E r \in RequestIds :
        /\ requests[r].state = "done"
        /\ requests[r].invoked
        /\ ~requests[r].response.success
        /\ RequestKey(r) \notin DOMAIN image_generation_cache
        /\ image_generation_cache # << >>

\* ------------------------------------------------------------------ C37
\* The handler of request r runs in this step.
HandlerRuns(r) == requests[r].state = "pending" /\ requests'[r].state # "pending"

\* The key of request r is in the cache.
KeyCached(r) == RequestKey(r) \in DOMAIN image_generation_cache

\* The answer is the stored entry, nothing is generated and nothing stored.
AnsweredFromCache(r) ==
    LET stored == image_generation_cache[RequestKey(r)] IN
    /\ requests'[r].state = "done"
    /\ requests'[r].response.success
    /\ requests'[r].response.renovated_image = Some(stored.renovated_image)
    /\ requests'[r].response.original_url = Some(stored.original_url)
    /\ requests'[r].response.cached = Some(TRUE)
    /\ ~requests'[r].invoked
    /\ blocking_call' = 0
    /\ generator_log' = generator_log
    /\ image_generation_cache' = image_generation_cache

\* C37: a request whose key is in the cache is answered with exactly the
\* stored artifact and cached = true, without a generate_renovation call and
\* without a change of the cache; a request that missed and generated an
\* image is answered with cached = false.
C37_HitReturnsStored ==
    [][\A r \in RequestIds :
          /\ (HandlerRuns(r) /\ KeyCached(r)) => AnsweredFromCache(r)
          /\ (CallEnds(r) /\ requests'[r].response.success) =>
                 /\ ~KeyCached(r)
                 /\ requests'[r].response.cached = Some(FALSE)]_vars

\* One request generated and was answered with cached = false, the next
\* with the same parameters was answered from the cache after a single call.
C37_Witness ==
    \E r \in RequestIds, p \in RequestIds :
        /\ ServedFromCache(r)
        /\ ~requests[r].invoked
        /\ Produced(p)
        /\ requests[p].audit_data = requests[r].audit_data
        /\ RequestKey(p) = RequestKey(r)
        /\ CallCount(generator_log, RequestArgs(r)) = 1

\* ------------------------------------------------------------------ C38
\* C38: once the status of a job is completed or failed, no scraper, auditor
\* or generator call of the job is submitted or running, and none is made
\* afterwards.
C38_NoCallsAfterTerminal ==
    /\ [](\A j \in JobIds : Terminal(j) => PendingCalls(j) = 0 /\ Finished(j))
    /\ [][\A j \in JobIds :
             Terminal(j) => /\ calls'[j] = calls[j]
                            /\ PendingCalls(j)' = 0]_vars

\* A job of three items has ended after calls of all three collaborators,
\* the last of them for its last item.
C38_Witness ==
    \E j \in ListingJobs :
        /\ Terminal(j)
        /\ calls[j].scraper = 1
        /\ calls[j].auditor = 3
        /\ calls[j].generator >= 1
        /\ tasks[j].idx = 3
        /\ PendingCalls(j) = 0

\* ------------------------------------------------------------------ C39
\* The audit data of request r has no prompt or no mask.
LacksPrompts(r) ==
    \/ requests[r].audit_data.image_gen_prompt = ""
    \/ requests[r].audit_data.mask_prompt = ""

\* C39: the handler of a request without a non-empty prompt or without a
\* non-empty mask answers with a failure, calls generate_renovation not at
\* all and leaves the cache as it is.
C39_NoPromptsFailsEarly ==
    [][\A r \in RequestIds :
          (HandlerRuns(r) /\ LacksPrompts(r)) =>
              /\ requests'[r].state = "done"
              /\ ~requests'[r].response.success
              /\ requests'[r].response.error =
                     Some("No renovation prompts found in audit data")
              /\ requests'[r].response.renovated_image = None
              /\ ~requests'[r].invoked
              /\ blocking_call' = blocking_call
              /\ generator_log' = generator_log
              /\ image_generation_cache' = image_generation_cache]_vars

\* A request without a prompt has been refused while the cache held the
\* image of a request for the same picture.
C39_Witness ==
    \E r \in RequestIds :
        /\ requests[r].audit_data = NoPromptAudit
        /\ requests[r].state = "done"
        /\ ~requests[r].response.success
        /\ ~requests[r].invoked
        /\ \E p \in RequestIds :
              Produced(p) /\ requests[p].image_url = requests[r].image_url

====
